---- MODULE Spec2Model ----
(***************************************************************************)
(* A model of lsst::daf::base::Citizen (src/src/Citizen.cc): the registry  *)
(* of active and persistent Citizens, the per-thread memId counters, the   *)
(* per-thread persistence flag, the reader/writer lock around the          *)
(* registry, the watch IDs and the callbacks they arm.                     *)
(*                                                                         *)
(* A thread runs one member function at a time.  A step of the model is    *)
(* the code a thread executes between two points where it takes or gives   *)
(* up citizenLock: taking the lock and running the guarded block is one    *)
(* step, releasing the lock (and the unguarded code after it) is the next. *)
(*                                                                         *)
(* The specifications share the state and the actions: Spec (the registry: *)
(* construction, destruction, markPersistent, persistence scopes and the   *)
(* census), SpecIds (the memId counters: construction, destruction and     *)
(* getNextMemId), SpecWatch (the watch IDs and their callbacks:            *)
(* construction, destruction, markPersistent and the watch-ID setters),    *)
(* SpecCorrupt (stray writes on sentinels, hasBeenCorrupted() and          *)
(* setCorruptionCallback), SpecDtor (the destructor with the delete watch  *)
(* and stray writes), SpecRace (hasBeenCorrupted() beside constructors and *)
(* destructors, no stray write), SpecLock (the operations that take        *)
(* citizenLock, callbacks that call read operations), SpecLive (census and *)
(* writers waiting for the lock, threads scheduled fairly) and SpecSet     *)
(* (the five setters).                                                     *)
(* A callback is a function pointer: it is modelled as returning any delta *)
(* of Deltas and touching the registry only where an action says so (a     *)
(* new or delete callback calling a read operation); the function          *)
(* installed as corruption callback either returns or, when it is          *)
(* defaultCorruptionCallback, throws.  An exception that leaves the        *)
(* destructor ends what the model follows of that thread.  memId is        *)
(* unsigned long; the counters and watch IDs stay far below 2^64 here, so  *)
(* no sum wraps.                                                           *)
(***************************************************************************)
EXTENDS Integers, Sequences, FiniteSets, TLC

(* ------------------------------ bounds -------------------------------- *)

NThreads == 2        \* threads using Citizens
NAddrs == 2          \* addresses (identity keys) an object can be built at
MaxId == 2           \* a thread constructs while its counter is <= MaxId
MaxScopeDepth == 2   \* live PersistentCitizenScope objects per thread
MaxDelta == 1        \* largest value a new/delete callback returns
MaxWatch == 3        \* a callback's delta is taken while the watch ID stays <= MaxWatch

Threads == 1..NThreads
Addrs == 1..NAddrs
MemIds == 0..MaxId
Deltas == 0..MaxDelta

(* ----------------------------- constants ------------------------------ *)

InitialMemId == 1    \* perThreadId(1)
NoThread == 0        \* pthread_t(), the thread of a value-initialised CitizenInfo
NoObject == 0        \* no `this': the thread is in a static member or idle
Uninit == -1         \* a _CitizenId that no constructor has stored yet
NoValue == -2        \* no return value / no local

NoFunc == "none"      \* no func argument: the thread is not in a callback setter
DefaultNewCallback == "defaultNewCallback"
DefaultDeleteCallback == "defaultDeleteCallback"
DefaultCorruptionCallback == "defaultCorruptionCallback"

Magic == "magicSentinel"
SentinelKept == "magicSentinel"   \* a destructor that leaves the magic pattern
Dead == "0x0000dead"
Unallocated == "unallocated"
Stray == "0xfeedface"  \* what a stray write leaves in the place of a sentinel

VARIABLES
    activeCitizens,        \* Citizen::_activeCitizens: map Citizen* -> (memId, pthread_t)
    persistentCitizens,    \* Citizen::_persistentCitizens
    newId,                 \* Citizen::_newId
    deleteId,              \* Citizen::_deleteId
    perThreadId,           \* perThreadId: the memId counter of each thread
    perThreadPersistFlag,  \* perThreadPersistFlag
    lockWriter,            \* citizenLock: the thread holding it for writing, or NoThread
    lockReaders,           \* citizenLock: read holds per thread
    sentinel,              \* _sentinel of the object at each address
    citizenId,             \* _CitizenId of the object at each address
    objState,              \* "free", "constructing", "live", "destroying"
    pc,                    \* where each thread is
    self,                  \* `this' (or c) of the member function a thread runs
    startingMemId,         \* the memId argument of the call a thread runs
    cid,                   \* local cid of _addCitizen
    corrupt,               \* local corrupt of ~Citizen
    ret,                   \* the value the call a thread runs is about to return
    hookLog,               \* callbacks a thread invoked in the call it runs
    scopes,                \* per thread: for each live PersistentCitizenScope, the
                           \* value the flag had when the scope was entered
    ids,                   \* per thread: the _CitizenId of the objects it built, in order
    peekVal,               \* per thread: what its latest getNextMemId() returned
    sincePeek,             \* per thread: the _CitizenId of the objects it built since
    bornInScope,           \* per address: built while a scope was alive on the builder
    marked,                \* per address: markPersistent() was called on the object
    newCallback,           \* Citizen::_newCallback
    deleteCallback,        \* Citizen::_deleteCallback
    corruptionCallback,    \* Citizen::_corruptionCallback
    func,                  \* per thread: the func argument of the callback setter it runs
    cur,                   \* per thread: iterator cur of hasBeenCorrupted(), as the number
                           \* of entries it has passed
    corruptAtScan          \* per thread: a registered object had a sentinel other than the
                           \* magic pattern when the hasBeenCorrupted() it runs took its guard

regVars == <<activeCitizens, persistentCitizens>>
watchVars == <<newId, deleteId>>
lockVars == <<lockWriter, lockReaders>>
objVars == <<sentinel, citizenId, objState>>
threadVars == <<perThreadId, perThreadPersistFlag, scopes>>
callVars == <<pc, self, startingMemId, cid, corrupt, ret, hookLog>>
ghostVars == <<ids, peekVal, sincePeek, bornInScope, marked>>
slotVars == <<newCallback, deleteCallback, corruptionCallback>>
scanVars == <<cur, corruptAtScan>>
extVars == <<newCallback, deleteCallback, corruptionCallback, func, cur, corruptAtScan>>

vars == <<activeCitizens, persistentCitizens, newId, deleteId, perThreadId,
          perThreadPersistFlag, lockWriter, lockReaders, sentinel, citizenId,
          objState, pc, self, startingMemId, cid, corrupt, ret, hookLog,
          scopes, ids, peekVal, sincePeek, bornInScope, marked,
          newCallback, deleteCallback, corruptionCallback, func, cur, corruptAtScan>>

(* ------------------------- std::map operations ------------------------ *)

EmptyTable == [k \in {} |-> <<0, NoThread>>]

\* an insertion that inserts nothing
MapPutNothing(table, c, info) == table

\* table[c] = info
MapPut(table, c, info) ==
    [k \in (DOMAIN table) \cup {c} |-> IF k = c THEN info ELSE table[k]]

\* operator[] that value-initialises the pair even when the key is present
MapIndexFresh(table, c) == MapPut(table, c, <<0, NoThread>>)

\* table[c] used as a value: operator[] inserts a value-initialised pair
\* when the key is missing
MapIndex(table, c) ==
    IF c \in DOMAIN table THEN table ELSE MapPut(table, c, <<0, NoThread>>)

\* an erase that removes nothing
MapEraseNothing(table, c) == table

\* table.erase(c)
MapErase(table, c) ==
    [k \in (DOMAIN table) \ {c} |-> table[k]]

\* an erase that reports it erased nothing
EraseCountZero(table, c) == 0

\* the value table.erase(c) returns
EraseCount(table, c) ==
    IF c \in DOMAIN table THEN 1 ELSE 0

(* ----------------------------- citizenLock ---------------------------- *)

\* a write lock that is granted whoever holds the lock
lockNoWait(t) ==
    /\ lockWriter' = t
    /\ UNCHANGED lockReaders

\* RwLock::lock: pthread_rwlock_wrlock returns once nobody holds the lock
lock(t) ==
    /\ lockWriter = NoThread
    /\ \A u \in Threads : lockReaders[u] = 0
    /\ lockWriter' = t
    /\ UNCHANGED lockReaders

\* RwLock::rdlock: pthread_rwlock_rdlock returns once no writer holds the lock
rdlock(t) ==
    /\ lockWriter = NoThread
    /\ lockReaders' = [lockReaders EXCEPT ![t] = @ + 1]
    /\ UNCHANGED lockWriter

\* RwLock::unlock
unlock(t) ==
    IF lockWriter = t
    THEN lockWriter' = NoThread /\ UNCHANGED lockReaders
    ELSE lockReaders' = [lockReaders EXCEPT ![t] = @ - 1] /\ UNCHANGED lockWriter

(* ------------------------------ the calls ----------------------------- *)

Idle(t) == pc[t] = "idle"

\* the thread returns to its caller: locals and return value are gone
Return(t) ==
    /\ pc' = [pc EXCEPT ![t] = "idle"]
    /\ self' = [self EXCEPT ![t] = NoObject]
    /\ startingMemId' = [startingMemId EXCEPT ![t] = NoValue]
    /\ cid' = [cid EXCEPT ![t] = NoValue]
    /\ corrupt' = [corrupt EXCEPT ![t] = FALSE]
    /\ ret' = [ret EXCEPT ![t] = NoValue]
    /\ hookLog' = [hookLog EXCEPT ![t] = <<>>]

Init ==
    /\ activeCitizens = EmptyTable
    /\ persistentCitizens = EmptyTable
    /\ newId = 0
    /\ deleteId = 0
    /\ perThreadId = [t \in Threads |-> InitialMemId]
    /\ perThreadPersistFlag = [t \in Threads |-> FALSE]
    /\ lockWriter = NoThread
    /\ lockReaders = [t \in Threads |-> 0]
    /\ sentinel = [c \in Addrs |-> Unallocated]
    /\ citizenId = [c \in Addrs |-> Uninit]
    /\ objState = [c \in Addrs |-> "free"]
    /\ pc = [t \in Threads |-> "idle"]
    /\ self = [t \in Threads |-> NoObject]
    /\ startingMemId = [t \in Threads |-> NoValue]
    /\ cid = [t \in Threads |-> NoValue]
    /\ corrupt = [t \in Threads |-> FALSE]
    /\ ret = [t \in Threads |-> NoValue]
    /\ hookLog = [t \in Threads |-> <<>>]
    /\ scopes = [t \in Threads |-> <<>>]
    /\ ids = [t \in Threads |-> <<>>]
    /\ peekVal = [t \in Threads |-> NoValue]
    /\ sincePeek = [t \in Threads |-> <<>>]
    /\ bornInScope = [c \in Addrs |-> FALSE]
    /\ marked = [c \in Addrs |-> FALSE]
    /\ newCallback = DefaultNewCallback
    /\ deleteCallback = DefaultDeleteCallback
    /\ corruptionCallback = DefaultCorruptionCallback
    /\ func = [t \in Threads |-> NoFunc]
    /\ cur = [t \in Threads |-> 0]
    /\ corruptAtScan = [t \in Threads |-> FALSE]


(* ---------------------------- callbacks ------------------------------- *)

\* the watch ID assigned, not advanced: = instead of +=
AdvanceWatchAssign(watch, delta) == delta

\* _newId += _newCallback(cid) and _deleteId += _deleteCallback(this):
\* the watch ID after a callback returned delta
AdvanceWatch(watch, delta) == watch + delta

(* ------------------------- the memId counter -------------------------- *)

\* a counter that hands out 0
NextMemIdZero(t) == 0

\* Citizen::_nextMemId: the calling thread's counter
nextMemId(t) == perThreadId[t]

\* a counter that is read but not incremented
NextMemIdNoIncrement(n) == n

\* the counter after perThreadId.getRef()++ returned n
NextMemIdAfter(n) == n + 1

\* Citizen::getNextMemId
GetNextMemId(t) ==
    /\ Idle(t)
    /\ pc' = [pc EXCEPT ![t] = "getNextMemId_ret"]
    /\ ret' = [ret EXCEPT ![t] = nextMemId(t)]
    /\ peekVal' = [peekVal EXCEPT ![t] = nextMemId(t)]
    /\ sincePeek' = [sincePeek EXCEPT ![t] = <<>>]
    /\ UNCHANGED <<regVars, watchVars, lockVars, objVars, threadVars,
                   ids, bornInScope, marked,
                   self, startingMemId, cid, corrupt, hookLog>>
    /\ UNCHANGED extVars

GetNextMemIdReturn(t) ==
    /\ pc[t] = "getNextMemId_ret"
    /\ Return(t)
    /\ UNCHANGED <<regVars, watchVars, lockVars, objVars, threadVars, ghostVars>>
    /\ UNCHANGED extVars

(* ---------------------------- construction ---------------------------- *)

\* Citizen::Citizen up to the end of the guarded block of _addCitizen:
\* _sentinel(magicSentinel), then _addCitizen(this) takes the next memId of
\* the thread, takes the write lock, registers c and compares cid to _newId.
AddCitizen(t, c) ==
    /\ Idle(t)
    /\ objState[c] = "free"
    /\ perThreadId[t] <= MaxId
    /\ lock(t)
    /\ LET id == nextMemId(t) IN
        /\ perThreadId' = [perThreadId EXCEPT ![t] = NextMemIdAfter(id)]
        /\ cid' = [cid EXCEPT ![t] = id]
        /\ IF perThreadPersistFlag[t]
           THEN /\ persistentCitizens' = MapPut(persistentCitizens, c, <<id, t>>)
                /\ UNCHANGED activeCitizens
           ELSE /\ activeCitizens' = MapPut(activeCitizens, c, <<id, t>>)
                /\ UNCHANGED persistentCitizens
        /\ IF id = newId
           THEN \E d \in Deltas :
                    /\ AdvanceWatch(newId, d) <= MaxWatch
                    /\ newId' = AdvanceWatch(newId, d)
                    /\ hookLog' = [hookLog EXCEPT ![t] = Append(@, <<"new", id, d>>)]
           ELSE UNCHANGED <<newId, hookLog>>
    /\ sentinel' = [sentinel EXCEPT ![c] = Magic]
    /\ objState' = [objState EXCEPT ![c] = "constructing"]
    /\ self' = [self EXCEPT ![t] = c]
    /\ pc' = [pc EXCEPT ![t] = "addCitizen_unlock"]
    /\ bornInScope' = [bornInScope EXCEPT ![c] = Len(scopes[t]) > 0]
    /\ UNCHANGED <<deleteId, perThreadPersistFlag, scopes, citizenId,
                   startingMemId, corrupt, ret, ids, peekVal, sincePeek, marked>>
    /\ UNCHANGED extVars

\* ~WriteGuard at the end of _addCitizen; cid is returned
AddCitizenUnlock(t) ==
    /\ pc[t] = "addCitizen_unlock"
    /\ unlock(t)
    /\ pc' = [pc EXCEPT ![t] = "Citizen_store"]
    /\ UNCHANGED <<regVars, watchVars, objVars, threadVars, ghostVars,
                   self, startingMemId, cid, corrupt, ret, hookLog>>
    /\ UNCHANGED extVars

\* _CitizenId(_addCitizen(this)): the constructor stores the returned cid
\* and finishes
CitizenStore(t) ==
    /\ pc[t] = "Citizen_store"
    /\ citizenId' = [citizenId EXCEPT ![self[t]] = cid[t]]
    /\ objState' = [objState EXCEPT ![self[t]] = "live"]
    /\ ids' = [ids EXCEPT ![t] = Append(@, citizenId'[self[t]])]
    /\ sincePeek' = [sincePeek EXCEPT ![t] =
                        IF peekVal[t] # NoValue THEN Append(@, citizenId'[self[t]]) ELSE @]
    /\ Return(t)
    /\ UNCHANGED <<regVars, watchVars, lockVars, threadVars, sentinel,
                   peekVal, bornInScope, marked>>
    /\ UNCHANGED extVars

(* ------------------------ PersistentCitizenScope ---------------------- *)

\* PersistentCitizenScope::PersistentCitizenScope
ScopeEnter(t) ==
    /\ Idle(t)
    /\ Len(scopes[t]) < MaxScopeDepth
    /\ scopes' = [scopes EXCEPT ![t] = Append(@, perThreadPersistFlag[t])]
    /\ perThreadPersistFlag' = [perThreadPersistFlag EXCEPT ![t] = TRUE]
    /\ UNCHANGED <<regVars, watchVars, lockVars, objVars, callVars, ghostVars,
                   perThreadId>>
    /\ UNCHANGED extVars

\* PersistentCitizenScope::~PersistentCitizenScope: the innermost live scope
\* of the thread ends
ScopeExit(t) ==
    /\ Idle(t)
    /\ Len(scopes[t]) > 0
    /\ scopes' = [scopes EXCEPT ![t] = SubSeq(@, 1, Len(@) - 1)]
    /\ perThreadPersistFlag' = [perThreadPersistFlag EXCEPT ![t] = FALSE]
    /\ UNCHANGED <<regVars, watchVars, lockVars, objVars, callVars, ghostVars,
                   perThreadId>>
    /\ UNCHANGED extVars


(* ----------------------------- destruction ---------------------------- *)

\* Citizen::_hasBeenCorrupted, the test: the sentinel is not the magic pattern
hasBeenCorruptedTest(c) == sentinel[c] # Magic

\* a check that calls the corruption callback whatever the sentinel holds
HasBeenCorruptedCallsAlways(c) == << <<"corruption", c, 0>> >>

\* Citizen::_hasBeenCorrupted, the callbacks it calls: none when the sentinel
\* is the magic pattern, else _corruptionCallback(this), once
hasBeenCorruptedCalls(c) ==
    IF hasBeenCorruptedTest(c) THEN << <<"corruption", c, 0>> >> ELSE <<>>

\* defaultCorruptionCallback throws; any other function installed returns
Throws(callback) == callback = DefaultCorruptionCallback

\* ~Citizen, first guarded block: the write lock is taken and _CitizenId is
\* compared to _deleteId; on a match the delete callback is called with this
CitizenDtorDelete(t, c) ==
    /\ Idle(t)
    /\ objState[c] = "live"
    /\ \A u \in Threads : self[u] # c
    /\ lock(t)
    /\ IF citizenId[c] = deleteId
       THEN \E d \in Deltas :
                /\ AdvanceWatch(deleteId, d) <= MaxWatch
                /\ deleteId' = AdvanceWatch(deleteId, d)
                /\ hookLog' = [hookLog EXCEPT ![t] = Append(@, <<"delete", c, d>>)]
       ELSE UNCHANGED <<deleteId, hookLog>>
    /\ objState' = [objState EXCEPT ![c] = "destroying"]
    /\ self' = [self EXCEPT ![t] = c]
    /\ pc' = [pc EXCEPT ![t] = "dtor_unlock1"]
    /\ UNCHANGED <<regVars, newId, threadVars, ghostVars, sentinel, citizenId,
                   startingMemId, cid, corrupt, ret>>
    /\ UNCHANGED extVars

\* ~WriteGuard of the first block, then the unguarded statements
\* (void)_hasBeenCorrupted() (the corruption callback is called when the
\* sentinel is not the magic pattern) and _sentinel = 0x0000dead.  When the
\* callback called is defaultCorruptionCallback its exception leaves the
\* destructor before the sentinel is written.
CitizenDtorUnlock1(t) ==
    /\ pc[t] = "dtor_unlock1"
    /\ unlock(t)
    /\ hookLog' = [hookLog EXCEPT ![t] = @ \o hasBeenCorruptedCalls(self[t])]
    /\ IF hasBeenCorruptedTest(self[t]) /\ Throws(corruptionCallback)
       THEN /\ pc' = [pc EXCEPT ![t] = "dtor_thrown"]
            /\ UNCHANGED sentinel
       ELSE /\ sentinel' = [sentinel EXCEPT ![self[t]] = Dead]
            /\ pc' = [pc EXCEPT ![t] = "dtor_erase"]
    /\ UNCHANGED <<regVars, watchVars, citizenId, objState, threadVars, ghostVars,
                   self, startingMemId, cid, corrupt, ret>>
    /\ UNCHANGED extVars

\* ~Citizen, second guarded block: nActive = _activeCitizens.erase(this);
\* corrupt = nActive > 1 || (nActive == 0 && _persistentCitizens.erase(this) != 1)
CitizenDtorErase(t) ==
    /\ pc[t] = "dtor_erase"
    /\ lock(t)
    /\ LET c == self[t]
           nActive == EraseCount(activeCitizens, c)
       IN  /\ activeCitizens' = MapErase(activeCitizens, c)
           /\ IF nActive > 1
              THEN /\ corrupt' = [corrupt EXCEPT ![t] = TRUE]
                   /\ UNCHANGED persistentCitizens
              ELSE IF nActive = 0
              THEN /\ corrupt' = [corrupt EXCEPT ![t] =
                                      EraseCount(persistentCitizens, c) # 1]
                   /\ persistentCitizens' = MapErase(persistentCitizens, c)
              ELSE /\ corrupt' = [corrupt EXCEPT ![t] = FALSE]
                   /\ UNCHANGED persistentCitizens
    /\ pc' = [pc EXCEPT ![t] = "dtor_unlock2"]
    /\ UNCHANGED <<watchVars, objVars, threadVars, ghostVars,
                   self, startingMemId, cid, ret, hookLog>>
    /\ UNCHANGED extVars

\* ~WriteGuard of the second block, then if (corrupt) _corruptionCallback(this)
CitizenDtorUnlock2(t) ==
    /\ pc[t] = "dtor_unlock2"
    /\ unlock(t)
    /\ hookLog' = [hookLog EXCEPT ![t] =
                      IF corrupt[t] THEN Append(@, <<"corruption", self[t], 0>>) ELSE @]
    /\ pc' = [pc EXCEPT ![t] = IF corrupt[t] /\ Throws(corruptionCallback)
                                THEN "dtor_thrown" ELSE "dtor_return"]
    /\ UNCHANGED <<regVars, watchVars, objVars, threadVars, ghostVars,
                   self, startingMemId, cid, corrupt, ret>>
    /\ UNCHANGED extVars

\* the destructor returns: the object is gone and its address can be reused
CitizenDtorReturn(t) ==
    /\ pc[t] = "dtor_return"
    /\ sentinel' = [sentinel EXCEPT ![self[t]] = Unallocated]
    /\ citizenId' = [citizenId EXCEPT ![self[t]] = Uninit]
    /\ objState' = [objState EXCEPT ![self[t]] = "free"]
    /\ bornInScope' = [bornInScope EXCEPT ![self[t]] = FALSE]
    /\ marked' = [marked EXCEPT ![self[t]] = FALSE]
    /\ Return(t)
    /\ UNCHANGED <<regVars, watchVars, lockVars, threadVars, ids, peekVal, sincePeek>>
    /\ UNCHANGED extVars

(* ---------------------------- markPersistent -------------------------- *)

\* Citizen::markPersistent, the guarded block:
\* _persistentCitizens[this] = _activeCitizens[this]; _activeCitizens.erase(this)
MarkPersistent(t, c) ==
    /\ Idle(t)
    /\ objState[c] = "live"
    /\ lock(t)
    /\ LET indexed == MapIndex(activeCitizens, c) IN
        /\ persistentCitizens' = MapPut(persistentCitizens, c, indexed[c])
        /\ activeCitizens' = MapErase(indexed, c)
    /\ marked' = [marked EXCEPT ![c] = TRUE]
    /\ self' = [self EXCEPT ![t] = c]
    /\ pc' = [pc EXCEPT ![t] = "markPersistent_unlock"]
    /\ UNCHANGED <<watchVars, objVars, threadVars, ids, peekVal, sincePeek,
                   bornInScope, startingMemId, cid, corrupt, ret, hookLog>>
    /\ UNCHANGED extVars

\* ~WriteGuard at the end of markPersistent
MarkPersistentUnlock(t) ==
    /\ pc[t] = "markPersistent_unlock"
    /\ unlock(t)
    /\ Return(t)
    /\ UNCHANGED <<regVars, watchVars, objVars, threadVars, ghostVars>>
    /\ UNCHANGED extVars


(* -------------------------------- census ------------------------------ *)

\* What a reader can find in the _CitizenId of the keys of table: the stored
\* ID, or any value for an object whose constructor has not stored it yet
\* (the read is then of an uninitialised member)
FieldViews(table) ==
    { v \in [DOMAIN table -> MemIds] :
        \A k \in DOMAIN table : citizenId[k] # Uninit => v[k] = citizenId[k] }

\* the keys of a std::map in iteration order (ascending pointers)
RECURSIVE KeysAscending(_)
KeysAscending(S) ==
    IF S = {} THEN <<>>
    ELSE LET m == CHOOSE x \in S : \A y \in S : x <= y
         IN  <<m>> \o KeysAscending(S \ {m})

\* cmpId: a->getId() < b->getId()
cmpId(view, a, b) == view[a] < view[b]

\* one pass of the insertion sort std::sort runs on a short vector: c moves
\* left past every element it compares less than
RECURSIVE SortInsert(_, _, _)
SortInsert(view, sorted, c) ==
    IF sorted = <<>> THEN <<c>>
    ELSE IF cmpId(view, c, sorted[Len(sorted)])
         THEN Append(SortInsert(view, SubSeq(sorted, 1, Len(sorted) - 1), c),
                     sorted[Len(sorted)])
         ELSE Append(sorted, c)

\* std::sort(vec.begin(), vec.end(), cmpId)
RECURSIVE SortById(_, _)
SortById(view, vec) ==
    IF vec = <<>> THEN <<>>
    ELSE SortInsert(view, SortById(view, SubSeq(vec, 1, Len(vec) - 1)), vec[Len(vec)])

\* the loop of census(memId) and countCitizens: the keys whose getId() is
\* >= startingMemId, in iteration order
Selected(view, table, m) ==
    SelectSeq(KeysAscending(DOMAIN table), LAMBDA c : view[c] >= m)

\* Citizen::census(memId startingMemId), the vector returned
census(view, table, m) == SortById(view, Selected(view, table, m))

\* Citizen::countCitizens(memId startingMemId), the number returned
countCitizens(view, table, m) ==
    IF m = 0 THEN Cardinality(DOMAIN table) ELSE Len(Selected(view, table, m))

\* Citizen::countCitizens takes its ReadGuard.  While the guard is held the
\* registry cannot change, and the call returns
\* countCitizens(view, activeCitizens, startingMemId) for the argument it was
\* given and a view of the _CitizenId members it reads.
CountCitizens(t) ==
    /\ Idle(t)
    /\ rdlock(t)
    /\ pc' = [pc EXCEPT ![t] = "countCitizens_unlock"]
    /\ UNCHANGED <<regVars, watchVars, objVars, threadVars, ghostVars,
                   self, startingMemId, cid, corrupt, ret, hookLog>>
    /\ UNCHANGED extVars

\* Citizen::census(memId) takes its ReadGuard; it returns
\* census(view, activeCitizens, startingMemId)
Census(t) ==
    /\ Idle(t)
    /\ rdlock(t)
    /\ pc' = [pc EXCEPT ![t] = "census_unlock"]
    /\ UNCHANGED <<regVars, watchVars, objVars, threadVars, ghostVars,
                   self, startingMemId, cid, corrupt, ret, hookLog>>
    /\ UNCHANGED extVars

\* ~ReadGuard at the end of countCitizens and census(memId)
ReadUnlock(t) ==
    /\ pc[t] \in {"countCitizens_unlock", "census_unlock"}
    /\ unlock(t)
    /\ Return(t)
    /\ UNCHANGED <<regVars, watchVars, objVars, threadVars, ghostVars>>
    /\ UNCHANGED extVars

(* ------------------------------ watch IDs ----------------------------- *)

\* Citizen::setNewCallbackId under its WriteGuard
SetNewCallbackId(t, id) ==
    /\ Idle(t)
    /\ lock(t)
    /\ ret' = [ret EXCEPT ![t] = newId]
    /\ newId' = id
    /\ pc' = [pc EXCEPT ![t] = "setCallbackId_unlock"]
    /\ UNCHANGED <<regVars, deleteId, objVars, threadVars, ghostVars,
                   self, startingMemId, cid, corrupt, hookLog>>
    /\ UNCHANGED extVars

\* Citizen::setDeleteCallbackId under its WriteGuard
SetDeleteCallbackId(t, id) ==
    /\ Idle(t)
    /\ lock(t)
    /\ ret' = [ret EXCEPT ![t] = deleteId]
    /\ deleteId' = id
    /\ pc' = [pc EXCEPT ![t] = "setCallbackId_unlock"]
    /\ UNCHANGED <<regVars, newId, objVars, threadVars, ghostVars,
                   self, startingMemId, cid, corrupt, hookLog>>
    /\ UNCHANGED extVars

\* ~WriteGuard at the end of the two setters; oldId is returned
SetCallbackIdUnlock(t) ==
    /\ pc[t] = "setCallbackId_unlock"
    /\ unlock(t)
    /\ Return(t)
    /\ UNCHANGED <<regVars, watchVars, objVars, threadVars, ghostVars>>
    /\ UNCHANGED extVars

(* ------------------------------ callbacks ----------------------------- *)

\* the functions a caller installs besides the defaults
UserFuncs == {"userCallback"}

\* a setter that leaves the slot as it was
KeepSlot(slot, f) == slot

\* _newCallback = func (and the like): the slot after the assignment
InstallSlot(slot, f) == f

\* Citizen::setNewCallback: old = _newCallback
SetNewCallback(t, f) ==
    /\ Idle(t)
    /\ ret' = [ret EXCEPT ![t] = newCallback]
    /\ func' = [func EXCEPT ![t] = f]
    /\ pc' = [pc EXCEPT ![t] = "setNewCallback_store"]
    /\ UNCHANGED <<regVars, watchVars, lockVars, objVars, threadVars, ghostVars,
                   slotVars, scanVars, self, startingMemId, cid, corrupt, hookLog>>

\* Citizen::setNewCallback: _newCallback = func
SetNewCallbackStore(t) ==
    /\ pc[t] = "setNewCallback_store"
    /\ newCallback' = InstallSlot(newCallback, func[t])
    /\ pc' = [pc EXCEPT ![t] = "setCallback_ret"]
    /\ UNCHANGED <<regVars, watchVars, lockVars, objVars, threadVars, ghostVars,
                   deleteCallback, corruptionCallback, func, scanVars,
                   self, startingMemId, cid, corrupt, ret, hookLog>>

\* Citizen::setDeleteCallback: old = _deleteCallback
SetDeleteCallback(t, f) ==
    /\ Idle(t)
    /\ ret' = [ret EXCEPT ![t] = deleteCallback]
    /\ func' = [func EXCEPT ![t] = f]
    /\ pc' = [pc EXCEPT ![t] = "setDeleteCallback_store"]
    /\ UNCHANGED <<regVars, watchVars, lockVars, objVars, threadVars, ghostVars,
                   slotVars, scanVars, self, startingMemId, cid, corrupt, hookLog>>

\* Citizen::setDeleteCallback: _deleteCallback = func
SetDeleteCallbackStore(t) ==
    /\ pc[t] = "setDeleteCallback_store"
    /\ deleteCallback' = InstallSlot(deleteCallback, func[t])
    /\ pc' = [pc EXCEPT ![t] = "setCallback_ret"]
    /\ UNCHANGED <<regVars, watchVars, lockVars, objVars, threadVars, ghostVars,
                   newCallback, corruptionCallback, func, scanVars,
                   self, startingMemId, cid, corrupt, ret, hookLog>>

\* Citizen::setCorruptionCallback: old = _corruptionCallback
SetCorruptionCallback(t, f) ==
    /\ Idle(t)
    /\ ret' = [ret EXCEPT ![t] = corruptionCallback]
    /\ func' = [func EXCEPT ![t] = f]
    /\ pc' = [pc EXCEPT ![t] = "setCorruptionCallback_store"]
    /\ UNCHANGED <<regVars, watchVars, lockVars, objVars, threadVars, ghostVars,
                   slotVars, scanVars, self, startingMemId, cid, corrupt, hookLog>>

\* Citizen::setCorruptionCallback: _corruptionCallback = func
SetCorruptionCallbackStore(t) ==
    /\ pc[t] = "setCorruptionCallback_store"
    /\ corruptionCallback' = InstallSlot(corruptionCallback, func[t])
    /\ pc' = [pc EXCEPT ![t] = "setCallback_ret"]
    /\ UNCHANGED <<regVars, watchVars, lockVars, objVars, threadVars, ghostVars,
                   newCallback, deleteCallback, func, scanVars,
                   self, startingMemId, cid, corrupt, ret, hookLog>>

\* return old, in the three callback setters
SetCallbackReturn(t) ==
    /\ pc[t] = "setCallback_ret"
    /\ Return(t)
    /\ func' = [func EXCEPT ![t] = NoFunc]
    /\ UNCHANGED <<regVars, watchVars, lockVars, objVars, threadVars, ghostVars,
                   slotVars, scanVars>>

(* ------------------------------ corruption ---------------------------- *)

\* a stray write (an overrun of a neighbouring block, a write through a
\* dangling pointer) lands on the _sentinel of the object at c
Overwrite(c) ==
    /\ objState[c] # "free"
    /\ sentinel[c] # Stray
    /\ sentinel' = [sentinel EXCEPT ![c] = Stray]
    /\ UNCHANGED <<regVars, watchVars, lockVars, citizenId, objState, threadVars,
                   callVars, ghostVars, extVars>>

\* a scan that visits _activeCitizens only
ScanOrderActive == KeysAscending(DOMAIN activeCitizens)

\* the entries in the order hasBeenCorrupted() visits them: _activeCitizens
\* from begin() to end(), then _persistentCitizens
ScanOrder ==
    KeysAscending(DOMAIN activeCitizens) \o KeysAscending(DOMAIN persistentCitizens)

\* Citizen::hasBeenCorrupted takes its ReadGuard; cur = _activeCitizens.begin()
HasBeenCorrupted(t) ==
    /\ Idle(t)
    /\ rdlock(t)
    /\ cur' = [cur EXCEPT ![t] = 0]
    /\ corruptAtScan' = [corruptAtScan EXCEPT ![t] =
                            \E c \in (DOMAIN activeCitizens) \cup (DOMAIN persistentCitizens) :
                                sentinel[c] # Magic]
    /\ pc' = [pc EXCEPT ![t] = "hasBeenCorrupted_scan"]
    /\ UNCHANGED <<regVars, watchVars, objVars, threadVars, ghostVars, slotVars, func,
                   self, startingMemId, cid, corrupt, ret, hookLog>>

\* one turn of the loops of hasBeenCorrupted(): past the last entry it
\* returns false; else cur->first->_hasBeenCorrupted() is called, and true
\* is returned when that returns true
HasBeenCorruptedStep(t) ==
    /\ pc[t] = "hasBeenCorrupted_scan"
    /\ IF cur[t] >= Len(ScanOrder)
       THEN /\ ret' = [ret EXCEPT ![t] = FALSE]
            /\ pc' = [pc EXCEPT ![t] = "hasBeenCorrupted_unlock"]
            /\ UNCHANGED <<cur, hookLog>>
       ELSE LET c == ScanOrder[cur[t] + 1] IN
            /\ hookLog' = [hookLog EXCEPT ![t] = @ \o hasBeenCorruptedCalls(c)]
            /\ IF ~hasBeenCorruptedTest(c)
               THEN /\ cur' = [cur EXCEPT ![t] = @ + 1]
                    /\ UNCHANGED <<pc, ret>>
               ELSE /\ IF Throws(corruptionCallback)
                       THEN /\ pc' = [pc EXCEPT ![t] = "hasBeenCorrupted_throw"]
                            /\ UNCHANGED ret
                       ELSE /\ pc' = [pc EXCEPT ![t] = "hasBeenCorrupted_unlock"]
                            /\ ret' = [ret EXCEPT ![t] = TRUE]
                    /\ UNCHANGED cur
    /\ UNCHANGED <<regVars, watchVars, lockVars, objVars, threadVars, ghostVars,
                   slotVars, func, corruptAtScan, self, startingMemId, cid, corrupt>>

\* ~ReadGuard at the end of hasBeenCorrupted(), on return and when the
\* exception of defaultCorruptionCallback unwinds through it
HasBeenCorruptedUnlock(t) ==
    /\ pc[t] \in {"hasBeenCorrupted_unlock", "hasBeenCorrupted_throw"}
    /\ unlock(t)
    /\ Return(t)
    /\ cur' = [cur EXCEPT ![t] = 0]
    /\ corruptAtScan' = [corruptAtScan EXCEPT ![t] = FALSE]
    /\ UNCHANGED <<regVars, watchVars, objVars, threadVars, ghostVars, slotVars, func>>

(* ------------------- callbacks that call back to read ----------------- *)

\* Citizen::Citizen up to the call of _newCallback(cid) in _addCitizen, for
\* a cid equal to _newId: as AddCitizen, with the callback still running
AddCitizenCallback(t, c) ==
    /\ Idle(t)
    /\ objState[c] = "free"
    /\ perThreadId[t] <= MaxId
    /\ nextMemId(t) = newId
    /\ lock(t)
    /\ LET id == nextMemId(t) IN
        /\ perThreadId' = [perThreadId EXCEPT ![t] = NextMemIdAfter(id)]
        /\ cid' = [cid EXCEPT ![t] = id]
        /\ IF perThreadPersistFlag[t]
           THEN /\ persistentCitizens' = MapPut(persistentCitizens, c, <<id, t>>)
                /\ UNCHANGED activeCitizens
           ELSE /\ activeCitizens' = MapPut(activeCitizens, c, <<id, t>>)
                /\ UNCHANGED persistentCitizens
    /\ sentinel' = [sentinel EXCEPT ![c] = Magic]
    /\ objState' = [objState EXCEPT ![c] = "constructing"]
    /\ self' = [self EXCEPT ![t] = c]
    /\ pc' = [pc EXCEPT ![t] = "newCallback"]
    /\ bornInScope' = [bornInScope EXCEPT ![c] = Len(scopes[t]) > 0]
    /\ UNCHANGED <<watchVars, perThreadPersistFlag, scopes, citizenId,
                   startingMemId, corrupt, ret, hookLog, ids, peekVal, sincePeek,
                   marked, extVars>>

\* _newId += _newCallback(cid): the callback returns
NewCallbackReturn(t) ==
    /\ pc[t] = "newCallback"
    /\ \E d \in Deltas :
          /\ AdvanceWatch(newId, d) <= MaxWatch
          /\ newId' = AdvanceWatch(newId, d)
          /\ hookLog' = [hookLog EXCEPT ![t] = Append(@, <<"new", cid[t], d>>)]
    /\ pc' = [pc EXCEPT ![t] = "addCitizen_unlock"]
    /\ UNCHANGED <<regVars, deleteId, lockVars, objVars, threadVars, ghostVars,
                   extVars, self, startingMemId, cid, corrupt, ret>>

\* ~Citizen up to the call of _deleteCallback(this) in its first guarded
\* block, for a _CitizenId equal to _deleteId: as CitizenDtorDelete, with
\* the callback still running
CitizenDtorCallback(t, c) ==
    /\ Idle(t)
    /\ objState[c] = "live"
    /\ \A u \in Threads : self[u] # c
    /\ citizenId[c] = deleteId
    /\ lock(t)
    /\ objState' = [objState EXCEPT ![c] = "destroying"]
    /\ self' = [self EXCEPT ![t] = c]
    /\ pc' = [pc EXCEPT ![t] = "deleteCallback"]
    /\ UNCHANGED <<regVars, watchVars, threadVars, ghostVars, extVars, sentinel,
                   citizenId, startingMemId, cid, corrupt, ret, hookLog>>

\* _deleteId += _deleteCallback(this): the callback returns
DeleteCallbackReturn(t) ==
    /\ pc[t] = "deleteCallback"
    /\ \E d \in Deltas :
          /\ AdvanceWatch(deleteId, d) <= MaxWatch
          /\ deleteId' = AdvanceWatch(deleteId, d)
          /\ hookLog' = [hookLog EXCEPT ![t] = Append(@, <<"delete", self[t], d>>)]
    /\ pc' = [pc EXCEPT ![t] = "dtor_unlock1"]
    /\ UNCHANGED <<regVars, newId, lockVars, objVars, threadVars, ghostVars,
                   extVars, self, startingMemId, cid, corrupt, ret>>

\* where a thread is while a callback it called from a guarded block runs
InCallback(t) == pc[t] \in {"newCallback", "deleteCallback"}

\* The callback calls countCitizens, census(memId) or hasBeenCorrupted():
\* ReadGuard::ReadGuard calls RwLock::rdlock on the lock the thread holds for
\* writing.  pthread_rwlock_rdlock may report EDEADLK; rdlock() then returns
\* false, _mustUnlock is false and the read runs under the write lock.
CallbackRdlockEdeadlk(t) ==
    /\ InCallback(t)
    /\ lockWriter = t
    /\ pc' = [pc EXCEPT ![t] = IF pc[t] = "newCallback"
                               THEN "newCallback_read" ELSE "deleteCallback_read"]
    /\ UNCHANGED <<regVars, watchVars, lockVars, objVars, threadVars, ghostVars,
                   extVars, self, startingMemId, cid, corrupt, ret, hookLog>>

\* The same call where pthread_rwlock_rdlock does not detect that the caller
\* holds the write lock (EDEADLK is a "may fail" of POSIX): the thread waits
\* for the lock it holds itself.
CallbackRdlockBlocks(t) ==
    /\ InCallback(t)
    /\ lockWriter = t
    /\ pc' = [pc EXCEPT ![t] = "rdlock_blocked"]
    /\ UNCHANGED <<regVars, watchVars, lockVars, objVars, threadVars, ghostVars,
                   extVars, self, startingMemId, cid, corrupt, ret, hookLog>>

\* ReadGuard::~ReadGuard with _mustUnlock false: nothing is unlocked, the
\* read operation returns to the callback
CallbackReadReturn(t) ==
    /\ pc[t] \in {"newCallback_read", "deleteCallback_read"}
    /\ pc' = [pc EXCEPT ![t] = IF pc[t] = "newCallback_read"
                               THEN "newCallback" ELSE "deleteCallback"]
    /\ UNCHANGED <<regVars, watchVars, lockVars, objVars, threadVars, ghostVars,
                   extVars, self, startingMemId, cid, corrupt, ret, hookLog>>

(* --------------------- census(stream), waiting writers ---------------- *)

\* the threads that are in, or about to enter, pthread_rwlock_wrlock
WritersWaiting == { t \in Threads : pc[t] \in {"setNewCallbackId_wrlock", "dtor_erase"} }

\* Citizen::setNewCallbackId is called: WriteGuard::WriteGuard calls lock()
SetNewCallbackIdCall(t, id) ==
    /\ Idle(t)
    /\ startingMemId' = [startingMemId EXCEPT ![t] = id]
    /\ pc' = [pc EXCEPT ![t] = "setNewCallbackId_wrlock"]
    /\ UNCHANGED <<regVars, watchVars, lockVars, objVars, threadVars, ghostVars,
                   extVars, self, cid, corrupt, ret, hookLog>>

\* pthread_rwlock_wrlock returns; the guarded block of setNewCallbackId
SetNewCallbackIdLocked(t) ==
    /\ pc[t] = "setNewCallbackId_wrlock"
    /\ lock(t)
    /\ ret' = [ret EXCEPT ![t] = newId]
    /\ newId' = startingMemId[t]
    /\ pc' = [pc EXCEPT ![t] = "setCallbackId_unlock"]
    /\ UNCHANGED <<regVars, deleteId, objVars, threadVars, ghostVars, extVars,
                   self, startingMemId, cid, corrupt, hookLog>>

\* Citizen::census(std::ostream&, memId) takes its ReadGuard
CensusStream(t) ==
    /\ Idle(t)
    /\ rdlock(t)
    /\ pc' = [pc EXCEPT ![t] = "censusStream_census"]
    /\ UNCHANGED <<regVars, watchVars, objVars, threadVars, ghostVars, extVars,
                   self, startingMemId, cid, corrupt, ret, hookLog>>

\* census(stream) calls census(memId), whose ReadGuard calls rdlock() on the
\* lock the thread holds for reading already; pthread_rwlock_rdlock grants
\* the second read lock
CensusStreamRdlock(t) ==
    /\ pc[t] = "censusStream_census"
    /\ rdlock(t)
    /\ pc' = [pc EXCEPT ![t] = "censusStream_unlock1"]
    /\ UNCHANGED <<regVars, watchVars, objVars, threadVars, ghostVars, extVars,
                   self, startingMemId, cid, corrupt, ret, hookLog>>

\* the same call of pthread_rwlock_rdlock while a writer is blocked on the
\* lock: whether the read lock is granted then is implementation-defined,
\* and an implementation that favours writers makes the reader wait until
\* no writer holds the lock or waits for it.  The waiting writers wait for
\* the read lock this thread holds, so the wait never ends: no step leaves
\* "censusStream_blocked".
CensusStreamRdlockBlocks(t) ==
    /\ pc[t] = "censusStream_census"
    /\ WritersWaiting # {}
    /\ pc' = [pc EXCEPT ![t] = "censusStream_blocked"]
    /\ UNCHANGED <<regVars, watchVars, lockVars, objVars, threadVars, ghostVars,
                   extVars, self, startingMemId, cid, corrupt, ret, hookLog>>

\* ~ReadGuard at the end of census(memId); census(stream) prints the vector
CensusStreamUnlock1(t) ==
    /\ pc[t] = "censusStream_unlock1"
    /\ unlock(t)
    /\ pc' = [pc EXCEPT ![t] = "censusStream_unlock2"]
    /\ UNCHANGED <<regVars, watchVars, objVars, threadVars, ghostVars, extVars,
                   self, startingMemId, cid, corrupt, ret, hookLog>>

\* ~ReadGuard at the end of census(stream)
CensusStreamUnlock2(t) ==
    /\ pc[t] = "censusStream_unlock2"
    /\ unlock(t)
    /\ Return(t)
    /\ UNCHANGED <<regVars, watchVars, objVars, threadVars, ghostVars, extVars>>

(* --------------------------- specification ---------------------------- *)

\* the registry: construction, destruction, markPersistent, persistence
\* scopes and the census
RegistryStep(t) ==
    \/ \E c \in Addrs : AddCitizen(t, c)
    \/ AddCitizenUnlock(t)
    \/ CitizenStore(t)
    \/ ScopeEnter(t)
    \/ ScopeExit(t)
    \/ \E c \in Addrs : CitizenDtorDelete(t, c)
    \/ CitizenDtorUnlock1(t)
    \/ CitizenDtorErase(t)
    \/ CitizenDtorUnlock2(t)
    \/ CitizenDtorReturn(t)
    \/ \E c \in Addrs : MarkPersistent(t, c)
    \/ MarkPersistentUnlock(t)
    \/ CountCitizens(t)
    \/ Census(t)
    \/ ReadUnlock(t)

Next == \E t \in Threads : RegistryStep(t)

Spec == Init /\ [][Next]_vars

\* the watch IDs and the callbacks: construction, destruction and
\* markPersistent with the two watch-ID setters
WatchStep(t) ==
    \/ \E c \in Addrs : AddCitizen(t, c)
    \/ AddCitizenUnlock(t)
    \/ CitizenStore(t)
    \/ \E c \in Addrs : CitizenDtorDelete(t, c)
    \/ CitizenDtorUnlock1(t)
    \/ CitizenDtorErase(t)
    \/ CitizenDtorUnlock2(t)
    \/ CitizenDtorReturn(t)
    \/ \E c \in Addrs : MarkPersistent(t, c)
    \/ MarkPersistentUnlock(t)
    \/ \E id \in MemIds : SetNewCallbackId(t, id)
    \/ \E id \in MemIds : SetDeleteCallbackId(t, id)
    \/ SetCallbackIdUnlock(t)

NextWatch == \E t \in Threads : WatchStep(t)

SpecWatch == Init /\ [][NextWatch]_vars


\* the memId counters: construction and destruction with getNextMemId
IdStep(t) ==
    \/ GetNextMemId(t)
    \/ GetNextMemIdReturn(t)
    \/ \E c \in Addrs : AddCitizen(t, c)
    \/ AddCitizenUnlock(t)
    \/ CitizenStore(t)
    \/ \E c \in Addrs : CitizenDtorDelete(t, c)
    \/ CitizenDtorUnlock1(t)
    \/ CitizenDtorErase(t)
    \/ CitizenDtorUnlock2(t)
    \/ CitizenDtorReturn(t)

NextIds == \E t \in Threads : IdStep(t)

SpecIds == Init /\ [][NextIds]_vars


\* corruption: construction, destruction and markPersistent with stray
\* writes, hasBeenCorrupted(), setCorruptionCallback and setDeleteCallbackId
CorruptStep(t) ==
    \/ \E c \in Addrs : AddCitizen(t, c)
    \/ AddCitizenUnlock(t)
    \/ CitizenStore(t)
    \/ \E c \in Addrs : CitizenDtorDelete(t, c)
    \/ CitizenDtorUnlock1(t)
    \/ CitizenDtorErase(t)
    \/ CitizenDtorUnlock2(t)
    \/ CitizenDtorReturn(t)
    \/ \E c \in Addrs : MarkPersistent(t, c)
    \/ MarkPersistentUnlock(t)
    \/ HasBeenCorrupted(t)
    \/ HasBeenCorruptedStep(t)
    \/ HasBeenCorruptedUnlock(t)
    \/ \E f \in UserFuncs \cup {DefaultCorruptionCallback} : SetCorruptionCallback(t, f)
    \/ SetCorruptionCallbackStore(t)
    \/ SetCallbackReturn(t)

NextCorrupt ==
    \/ \E t \in Threads : CorruptStep(t)
    \/ \E c \in Addrs : Overwrite(c)

SpecCorrupt == Init /\ [][NextCorrupt]_vars


\* the lock: every operation that takes citizenLock, with callbacks that
\* call read operations
LockStep(t) ==
    \/ \E c \in Addrs : AddCitizen(t, c)
    \/ \E c \in Addrs : AddCitizenCallback(t, c)
    \/ NewCallbackReturn(t)
    \/ AddCitizenUnlock(t)
    \/ CitizenStore(t)
    \/ \E c \in Addrs : CitizenDtorDelete(t, c)
    \/ \E c \in Addrs : CitizenDtorCallback(t, c)
    \/ DeleteCallbackReturn(t)
    \/ CitizenDtorUnlock1(t)
    \/ CitizenDtorErase(t)
    \/ CitizenDtorUnlock2(t)
    \/ CitizenDtorReturn(t)
    \/ \E c \in Addrs : MarkPersistent(t, c)
    \/ MarkPersistentUnlock(t)
    \/ CountCitizens(t)
    \/ Census(t)
    \/ ReadUnlock(t)
    \/ HasBeenCorrupted(t)
    \/ HasBeenCorruptedStep(t)
    \/ HasBeenCorruptedUnlock(t)
    \/ \E id \in MemIds : SetNewCallbackId(t, id)
    \/ \E id \in MemIds : SetDeleteCallbackId(t, id)
    \/ SetCallbackIdUnlock(t)
    \/ CallbackRdlockEdeadlk(t)
    \/ CallbackRdlockBlocks(t)
    \/ CallbackReadReturn(t)

NextLock == \E t \in Threads : LockStep(t)

SpecLock == Init /\ [][NextLock]_vars


\* termination: construction, destruction, countCitizens, census(stream)
\* and setNewCallbackId with its wait for the write lock
LiveStep(t) ==
    \/ \E c \in Addrs : AddCitizen(t, c)
    \/ AddCitizenUnlock(t)
    \/ CitizenStore(t)
    \/ \E c \in Addrs : CitizenDtorDelete(t, c)
    \/ CitizenDtorUnlock1(t)
    \/ CitizenDtorErase(t)
    \/ CitizenDtorUnlock2(t)
    \/ CitizenDtorReturn(t)
    \/ CountCitizens(t)
    \/ ReadUnlock(t)
    \/ \E id \in MemIds : SetNewCallbackIdCall(t, id)
    \/ SetNewCallbackIdLocked(t)
    \/ SetCallbackIdUnlock(t)
    \/ CensusStream(t)
    \/ CensusStreamRdlock(t)
    \/ CensusStreamRdlockBlocks(t)
    \/ CensusStreamUnlock1(t)
    \/ CensusStreamUnlock2(t)

NextLive == \E t \in Threads : LiveStep(t)

\* a step of an operation thread t has invoked and not completed
LiveProgress(t) == pc[t] # "idle" /\ LiveStep(t)

\* fair scheduling: a thread inside an operation whose next step stays
\* possible takes it
SpecLive == Init /\ [][NextLive]_vars /\ \A t \in Threads : WF_vars(LiveProgress(t))


\* the setters: the three callback setters and the two watch-ID setters,
\* with construction to fill the registry
SetStep(t) ==
    \/ \E f \in UserFuncs \cup {DefaultNewCallback} : SetNewCallback(t, f)
    \/ SetNewCallbackStore(t)
    \/ \E f \in UserFuncs \cup {DefaultDeleteCallback} : SetDeleteCallback(t, f)
    \/ SetDeleteCallbackStore(t)
    \/ \E f \in UserFuncs \cup {DefaultCorruptionCallback} : SetCorruptionCallback(t, f)
    \/ SetCorruptionCallbackStore(t)
    \/ SetCallbackReturn(t)
    \/ \E id \in MemIds : SetNewCallbackId(t, id)
    \/ \E id \in MemIds : SetDeleteCallbackId(t, id)
    \/ SetCallbackIdUnlock(t)
    \/ \E c \in Addrs : AddCitizen(t, c)
    \/ AddCitizenUnlock(t)
    \/ CitizenStore(t)

NextSet == \E t \in Threads : SetStep(t)

SpecSet == Init /\ [][NextSet]_vars


\* destruction: construction and destruction with stray writes,
\* setDeleteCallbackId and setCorruptionCallback
DtorStep(t) ==
    \/ \E c \in Addrs : AddCitizen(t, c)
    \/ AddCitizenUnlock(t)
    \/ CitizenStore(t)
    \/ \E c \in Addrs : CitizenDtorDelete(t, c)
    \/ CitizenDtorUnlock1(t)
    \/ CitizenDtorErase(t)
    \/ CitizenDtorUnlock2(t)
    \/ CitizenDtorReturn(t)
    \/ \E id \in MemIds : SetDeleteCallbackId(t, id)
    \/ SetCallbackIdUnlock(t)
    \/ \E f \in UserFuncs \cup {DefaultCorruptionCallback} : SetCorruptionCallback(t, f)
    \/ SetCorruptionCallbackStore(t)
    \/ SetCallbackReturn(t)

NextDtor ==
    \/ \E t \in Threads : DtorStep(t)
    \/ \E c \in Addrs : Overwrite(c)

SpecDtor == Init /\ [][NextDtor]_vars


\* hasBeenCorrupted() beside constructors and destructors, with no stray
\* write at all: every sentinel holds what a constructor or a destructor
\* stored in it
RaceStep(t) ==
    \/ \E c \in Addrs : AddCitizen(t, c)
    \/ AddCitizenUnlock(t)
    \/ CitizenStore(t)
    \/ \E c \in Addrs : CitizenDtorDelete(t, c)
    \/ CitizenDtorUnlock1(t)
    \/ CitizenDtorErase(t)
    \/ CitizenDtorUnlock2(t)
    \/ CitizenDtorReturn(t)
    \/ \E c \in Addrs : MarkPersistent(t, c)
    \/ MarkPersistentUnlock(t)
    \/ HasBeenCorrupted(t)
    \/ HasBeenCorruptedStep(t)
    \/ HasBeenCorruptedUnlock(t)
    \/ \E f \in UserFuncs \cup {DefaultCorruptionCallback} : SetCorruptionCallback(t, f)
    \/ SetCorruptionCallbackStore(t)
    \/ SetCallbackReturn(t)

NextRace == \E t \in Threads : RaceStep(t)

SpecRace == Init /\ [][NextRace]_vars

(* ------------------------------ the claims ---------------------------- *)

InActive(c) == c \in DOMAIN activeCitizens
InPersistent(c) == c \in DOMAIN persistentCitizens
SeqElems(q) == { q[i] : i \in 1..Len(q) }

\* C1, as stated: in every state an object whose construction has completed
\* and whose destruction has not completed is in exactly one of the two sets,
\* and an object not yet constructed or fully destroyed is in neither.
C1_AsStated ==
    \A c \in Addrs :
        /\ objState[c] \in {"live", "destroying"} => (InActive(c) # InPersistent(c))
        /\ objState[c] \in {"free", "constructing"} => (~InActive(c) /\ ~InPersistent(c))

\* C1, amended: no key is ever in both sets; the key of an object whose
\* construction has completed and whose destruction has not begun is in
\* exactly one of them; the key of an object whose construction has not
\* begun or whose destruction has completed is in neither.  In between, the
\* key is registered from the guarded block of _addCitizen on and erased by
\* the second guarded block of the destructor.
C1_Lifetime ==
    \A c \in Addrs :
        /\ ~(InActive(c) /\ InPersistent(c))
        /\ objState[c] = "live" => (InActive(c) \/ InPersistent(c))
        /\ objState[c] = "free" => (~InActive(c) /\ ~InPersistent(c))
        /\ objState[c] = "constructing" => (InActive(c) \/ InPersistent(c))
        /\ \A t \in Threads :
              (self[t] = c /\ pc[t] \in {"dtor_unlock1", "dtor_erase"})
                  => (InActive(c) \/ InPersistent(c))
        /\ \A t \in Threads :
              (self[t] = c /\ pc[t] \in {"dtor_unlock2", "dtor_return"})
                  => (~InActive(c) /\ ~InPersistent(c))

\* C1, witness: a live object in the active set beside a live object that
\* markPersistent moved to the persistent set
C1_Witness ==
    \E c, k \in Addrs :
        /\ c # k
        /\ objState[c] = "live" /\ InActive(c)
        /\ objState[k] = "live" /\ InPersistent(k) /\ marked[k]

\* the live objects built outside every persistence scope and never marked
NeverPersistent ==
    { c \in Addrs : objState[c] = "live" /\ ~bornInScope[c] /\ ~marked[c] }

\* C2, as stated: with k objects built outside a persistence scope and never
\* marked persistent, j of them destroyed, countCitizens(0) returns k - j;
\* objects built inside a scope or marked persistent do not change the number.
C2_AsStated ==
    \A t \in Threads :
        (pc[t] = "countCitizens_unlock" /\ \A u \in Threads \ {t} : Idle(u))
            => \A view \in FieldViews(activeCitizens) :
                   countCitizens(view, activeCitizens, 0) = Cardinality(NeverPersistent)

\* the registry's answer to census(m): the active keys whose registered
\* tracking ID is >= m
ActiveFrom(m) == { c \in DOMAIN activeCitizens : activeCitizens[c][1] >= m }

\* C3, as stated: census(minId) returns exactly the active objects whose
\* tracking ID is >= minId, each once, by non-decreasing ID, and
\* countCitizens(minId) is the length of census(minId).
C3_AsStated ==
    \A t \in Threads :
        pc[t] = "census_unlock" =>
            \A m \in MemIds : \A view \in FieldViews(activeCitizens) :
                LET r == census(view, activeCitizens, m) IN
                    /\ SeqElems(r) = ActiveFrom(m)
                    /\ Len(r) = Cardinality(ActiveFrom(m))
                    /\ \A i, j \in 1..Len(r) :
                          i < j => activeCitizens[r[i]][1] <= activeCitizens[r[j]][1]
                    /\ countCitizens(view, activeCitizens, m) = Len(r)

\* C4: the objects a thread builds after getNextMemId() returned p get the
\* IDs p, p+1, ... in construction order, and after N of them getNextMemId()
\* returns p+N, whatever other threads do; getNextMemId() leaves the counter
\* alone; the counter of a thread that has built nothing is 1.
C4_Consecutive ==
    \A t \in Threads :
        /\ peekVal[t] # NoValue =>
              \A i \in 1..Len(sincePeek[t]) : sincePeek[t][i] = peekVal[t] + i - 1
        /\ (peekVal[t] # NoValue /\ pc[t] \in {"idle", "getNextMemId_ret"}) =>
              nextMemId(t) = peekVal[t] + Len(sincePeek[t])
        /\ pc[t] = "getNextMemId_ret" => (ret[t] = nextMemId(t) /\ sincePeek[t] = <<>>)
        /\ (ids[t] = <<>> /\ Idle(t)) => nextMemId(t) = InitialMemId

\* C4, witness: a thread built two objects since getNextMemId() returned 1,
\* another thread built an object meanwhile, and the first thread calls
\* getNextMemId() again
C4_Witness ==
    \E t, u \in Threads :
        /\ t # u
        /\ peekVal[t] = 1 /\ Len(sincePeek[t]) = 2 /\ Idle(t)
        /\ ids[u] # <<>>
        /\ nextMemId(t) = 3

\* C5, as stated: no two live Citizens carry the same ID.
C5_AsStated ==
    \A c, k \in Addrs :
        (c # k /\ objState[c] = "live" /\ objState[k] = "live")
            => citizenId[c] # citizenId[k]

\* a step in which thread t runs the guarded block of markPersistent
MarkStep(t) == Idle(t) /\ pc'[t] = "markPersistent_unlock"

\* C6: markPersistent() on an object of the active set takes it out of
\* census(minId) and countCitizens(minId) for every minId, puts it in the
\* persistent set with the entry it had, keeps its ID, does not destroy it
\* and leaves every other entry alone.
C6_MarkActive ==
    [][\A t \in Threads :
          (MarkStep(t) /\ self'[t] \in DOMAIN activeCitizens) =>
              LET c == self'[t] IN
                  /\ c \notin DOMAIN activeCitizens'
                  /\ c \in DOMAIN persistentCitizens'
                  /\ persistentCitizens'[c] = activeCitizens[c]
                  /\ DOMAIN activeCitizens' = (DOMAIN activeCitizens) \ {c}
                  /\ DOMAIN persistentCitizens' = (DOMAIN persistentCitizens) \cup {c}
                  /\ \A k \in DOMAIN activeCitizens' : activeCitizens'[k] = activeCitizens[k]
                  /\ \A k \in (DOMAIN persistentCitizens) \ {c} :
                        persistentCitizens'[k] = persistentCitizens[k]
                  /\ citizenId' = citizenId
                  /\ objState' = objState /\ objState[c] = "live"
                  /\ sentinel' = sentinel
                  /\ \A m \in MemIds : \A view \in FieldViews(activeCitizens)' :
                        /\ c \notin SeqElems(census(view, activeCitizens, m)')
                        /\ countCitizens(view, activeCitizens, m)'
                             = Cardinality({ k \in (DOMAIN activeCitizens) \ {c} : view[k] >= m })
      ]_vars

\* C6, witness: markPersistent has just moved an object with its entry to
\* the persistent set while another object stays in the active set
C6_Witness ==
    \E t \in Threads : \E k \in Addrs :
        /\ pc[t] = "markPersistent_unlock"
        /\ k # self[t] /\ InActive(k)
        /\ InPersistent(self[t])
        /\ ~bornInScope[self[t]]
        /\ persistentCitizens[self[t]][1] >= 1
        /\ persistentCitizens[self[t]][2] \in Threads

\* C7, as stated: markPersistent() on an object that is not in the active
\* set leaves both sets, entries included, as they were.
C7_AsStated ==
    [][\A t \in Threads :
          (MarkStep(t) /\ self'[t] \notin DOMAIN activeCitizens) =>
              /\ activeCitizens' = activeCitizens
              /\ persistentCitizens' = persistentCitizens
      ]_vars

\* C8, as stated: while a PersistentCitizenScope is alive on a thread every
\* Citizen the thread constructs is registered in the persistent set and not
\* in the active set; a thread with no live scope registers in the active set.
C8_AsStated ==
    \A t \in Threads :
        pc[t] = "addCitizen_unlock" =>
            IF Len(scopes[t]) > 0
            THEN InPersistent(self[t]) /\ ~InActive(self[t])
            ELSE InActive(self[t]) /\ ~InPersistent(self[t])

\* C9, as stated: entering a scope sets the thread's flag; leaving it
\* restores the value the flag had just before that scope was entered, for
\* any nesting.
C9_AsStated ==
    [][\A t \in Threads :
          /\ Len(scopes'[t]) > Len(scopes[t]) => perThreadPersistFlag'[t] = TRUE
          /\ Len(scopes'[t]) < Len(scopes[t]) =>
                perThreadPersistFlag'[t] = scopes[t][Len(scopes[t])]
      ]_vars

\* the delete callbacks among the callbacks of a log
DeleteCalls(log) == SelectSeq(log, LAMBDA e : e[1] = "delete")

\* C10: a destruction whose object ID equals the delete-watch ID calls the
\* delete callback once, with the object, while the object is registered,
\* and advances the watch ID by the value returned; a destruction whose
\* object ID differs calls no delete callback and leaves the watch ID alone.
C10_DeleteHook ==
    [][\A t \in Threads :
          /\ (Idle(t) /\ pc'[t] = "dtor_unlock1") =>
                LET c == self'[t] IN
                    IF citizenId[c] = deleteId
                    THEN /\ Len(hookLog'[t]) = 1
                         /\ hookLog'[t][1][1] = "delete"
                         /\ hookLog'[t][1][2] = c
                         /\ c \in (DOMAIN activeCitizens) \cup (DOMAIN persistentCitizens)
                         /\ c \in (DOMAIN activeCitizens') \cup (DOMAIN persistentCitizens')
                         /\ deleteId' = deleteId + hookLog'[t][1][3]
                    ELSE /\ hookLog'[t] = <<>>
                         /\ deleteId' = deleteId
          /\ (pc[t] \in {"dtor_unlock1", "dtor_erase", "dtor_unlock2"}) =>
                /\ DeleteCalls(hookLog'[t]) = DeleteCalls(hookLog[t])
                /\ pc'[t] # pc[t] => deleteId' = deleteId
      ]_vars

\* C10, witness: the destructor of an object of the persistent set has just
\* called the delete callback, which returned 1
C10_Witness ==
    \E t \in Threads :
        /\ pc[t] = "dtor_unlock1"
        /\ hookLog[t] = << <<"delete", self[t], 1>> >>
        /\ InPersistent(self[t])
        /\ deleteId = citizenId[self[t]] + 1

\* the new callbacks among the callbacks of a log
NewCalls(log) == SelectSeq(log, LAMBDA e : e[1] = "new")

\* C11: a construction whose ID, the one just taken from the thread's
\* counter, equals the new-watch ID calls the new callback once, with that
\* ID, in the guarded block in which the object has been registered, and
\* advances the watch ID by the value returned (by 0: unchanged); a
\* construction whose ID differs calls no new callback and leaves the watch
\* ID alone.  The rest of the constructor calls no callback and leaves the
\* watch ID alone.
C11_NewHook ==
    [][\A t \in Threads :
          /\ (Idle(t) /\ pc'[t] = "addCitizen_unlock") =>
                LET c == self'[t]
                    id == cid'[t]
                IN  /\ id = nextMemId(t)
                    /\ IF id = newId
                       THEN /\ Len(hookLog'[t]) = 1
                            /\ hookLog'[t][1][1] = "new"
                            /\ hookLog'[t][1][2] = id
                            /\ c \in (DOMAIN activeCitizens') \cup (DOMAIN persistentCitizens')
                            /\ newId' = newId + hookLog'[t][1][3]
                       ELSE /\ hookLog'[t] = <<>>
                            /\ newId' = newId
          /\ pc[t] = "addCitizen_unlock" => hookLog'[t] = hookLog[t]
          /\ (pc[t] \in {"addCitizen_unlock", "Citizen_store"} /\ pc'[t] # pc[t]) =>
                newId' = newId
      ]_vars

\* C11, witness: a construction has just called the new callback with ID 2,
\* the callback returned 1 and the watch ID is 3; the object is registered
C11_Witness ==
    \E t \in Threads :
        /\ pc[t] = "addCitizen_unlock"
        /\ cid[t] = 2
        /\ hookLog[t] = << <<"new", 2, 1>> >>
        /\ newId = 3
        /\ InActive(self[t])

\* a step of thread t inside the loops of hasBeenCorrupted()
ScanTurn(t) ==
    /\ pc[t] = "hasBeenCorrupted_scan"
    /\ (cur'[t] # cur[t] \/ pc'[t] # pc[t])

\* C12: the per-object check, wherever it is called (by the destructor, by
\* a turn of hasBeenCorrupted()), finds no corruption and calls no callback
\* when the sentinel holds the magic pattern, as it does when the object has
\* just been constructed; when the sentinel holds anything else it calls the
\* corruption callback once, with the object, whatever the watch IDs are,
\* and (the callback returning) reports corruption.
C12_ObjectCheck ==
    [][\A t \in Threads :
          /\ (Idle(t) /\ pc'[t] = "addCitizen_unlock") =>
                sentinel'[self'[t]] = Magic
          /\ (pc[t] = "dtor_unlock1" /\ pc'[t] # pc[t]) =>
                LET c == self[t] IN
                    IF sentinel[c] = Magic
                    THEN hookLog'[t] = hookLog[t] /\ pc'[t] = "dtor_erase"
                    ELSE hookLog'[t] = Append(hookLog[t], <<"corruption", c, 0>>)
          /\ (ScanTurn(t) /\ cur[t] < Len(ScanOrder)) =>
                LET c == ScanOrder[cur[t] + 1] IN
                    IF sentinel[c] = Magic
                    THEN /\ hookLog'[t] = hookLog[t]
                         /\ pc'[t] = pc[t] /\ cur'[t] = cur[t] + 1
                    ELSE /\ hookLog'[t] = Append(hookLog[t], <<"corruption", c, 0>>)
                         /\ ~Throws(corruptionCallback) =>
                               (pc'[t] = "hasBeenCorrupted_unlock" /\ ret'[t] = TRUE)
      ]_vars

\* C12, witness: hasBeenCorrupted() has called the per-object check on a
\* live object whose sentinel a stray write has overwritten; the check
\* called the corruption callback once and returned true
C12_Witness ==
    \E t \in Threads : \E c \in Addrs :
        /\ pc[t] = "hasBeenCorrupted_unlock"
        /\ hookLog[t] = << <<"corruption", c, 0>> >>
        /\ ret[t] = TRUE
        /\ objState[c] = "live"
        /\ sentinel[c] = Stray

\* C13: hasBeenCorrupted() with a corruption callback that returns.  While
\* it scans, neither set changes.  It passes an entry only when the sentinel
\* of the entry holds the magic pattern, the active set before the
\* persistent set.  It returns true only for a registered object whose
\* sentinel is not the magic pattern, the first such it met, having called
\* the corruption callback once, for that object.  It returns false only
\* after passing every entry, having called no callback, and never when a
\* registered object had such a sentinel already as the scan began.
C13_Scan ==
    [][\A t \in Threads :
          /\ (Idle(t) /\ pc'[t] = "hasBeenCorrupted_scan") => regVars' = regVars
          /\ pc[t] = "hasBeenCorrupted_scan" =>
                /\ regVars' = regVars
                /\ cur'[t] # cur[t] =>
                      /\ cur'[t] = cur[t] + 1
                      /\ cur[t] < Len(ScanOrder)
                      /\ sentinel[ScanOrder[cur[t] + 1]] = Magic
                      /\ hookLog'[t] = hookLog[t]
                /\ pc'[t] = "hasBeenCorrupted_unlock" =>
                      IF ret'[t]
                      THEN /\ cur[t] < Cardinality((DOMAIN activeCitizens)
                                                   \cup (DOMAIN persistentCitizens))
                           /\ LET c == ScanOrder[cur[t] + 1] IN
                                /\ InActive(c) \/ InPersistent(c)
                                /\ sentinel[c] # Magic
                                /\ hookLog'[t] = << <<"corruption", c, 0>> >>
                                /\ InPersistent(c) =>
                                      cur[t] >= Cardinality(DOMAIN activeCitizens)
                      ELSE /\ cur[t] = Cardinality((DOMAIN activeCitizens)
                                                   \cup (DOMAIN persistentCitizens))
                           /\ hookLog'[t] = <<>>
                           /\ ~corruptAtScan[t]
      ]_vars

\* C13, witness: hasBeenCorrupted() passed the one active entry, found the
\* sentinel of the one persistent entry overwritten, called the corruption
\* callback for it and returns true
C13_Witness ==
    \E t \in Threads :
        /\ pc[t] = "hasBeenCorrupted_unlock"
        /\ ret[t] = TRUE
        /\ cur[t] = 1
        /\ Cardinality(DOMAIN activeCitizens) = 1
        /\ InPersistent(ScanOrder[2])
        /\ sentinel[ScanOrder[1]] = Magic
        /\ hookLog[t] = << <<"corruption", ScanOrder[2], 0>> >>

\* where a thread is between the constructor and the destructor of a
\* WriteGuard
WriterPcs ==
    {"addCitizen_unlock", "newCallback", "newCallback_read", "dtor_unlock1",
     "deleteCallback", "deleteCallback_read", "rdlock_blocked", "dtor_unlock2",
     "markPersistent_unlock", "setCallbackId_unlock"}

\* where a thread is between the constructor and the destructor of the
\* ReadGuard of countCitizens, census(memId) or hasBeenCorrupted()
ReaderPcs ==
    {"countCitizens_unlock", "census_unlock", "hasBeenCorrupted_scan",
     "hasBeenCorrupted_unlock", "hasBeenCorrupted_throw"}

\* no thread is in a write-guarded block while another thread is in a
\* guarded block of either kind
Exclusive ==
    /\ \A t, u \in Threads :
          (t # u /\ pc[t] \in WriterPcs) => pc[u] \notin (WriterPcs \cup ReaderPcs)
    /\ \A t \in Threads : pc[t] \in WriterPcs => lockWriter = t
    /\ lockWriter # NoThread => \A u \in Threads : lockReaders[u] = 0

\* C14: no thread mutates the two sets while another thread is inside its
\* own mutation or iterates them, and every step that changes a set or a
\* watch ID is taken by a thread that holds the write lock when the step
\* ends, with no other thread in a guarded block.
C14_Exclusion ==
    [][/\ Exclusive'
       /\ (regVars' # regVars \/ watchVars' # watchVars) =>
             \E t \in Threads :
                /\ lockWriter' = t
                /\ pc'[t] \in WriterPcs
                /\ pc[t] \in {"idle", "dtor_erase", "newCallback", "deleteCallback"}
                /\ \A u \in Threads \ {t} :
                      /\ pc[u] \notin (WriterPcs \cup ReaderPcs)
                      /\ pc'[u] = pc[u]
      ]_vars

\* C14, witness: two threads iterate the sets at the same time, one in
\* census(memId) and one in hasBeenCorrupted(), over a registered object
C14_Witness ==
    \E t, u \in Threads :
        /\ pc[t] = "census_unlock"
        /\ pc[u] = "hasBeenCorrupted_scan"
        /\ lockReaders[t] = 1 /\ lockReaders[u] = 1
        /\ DOMAIN activeCitizens # {}

\* C15, as stated: a read operation called by the thread that holds the
\* write lock (from inside a new or delete callback) does not block, runs
\* without taking the read lock and leaves the thread holding its write
\* lock, with no other thread in a guarded block.
C15_AsStated ==
    \A t \in Threads :
        /\ pc[t] # "rdlock_blocked"
        /\ pc[t] \in {"newCallback_read", "deleteCallback_read"} =>
              /\ lockWriter = t
              /\ \A u \in Threads : lockReaders[u] = 0
              /\ \A u \in Threads \ {t} : pc[u] \notin (WriterPcs \cup ReaderPcs)

\* what C15 states, for the calls in which pthread_rwlock_rdlock reports
\* EDEADLK
C15_WhenDetected ==
    \A t \in Threads :
        pc[t] \in {"newCallback_read", "deleteCallback_read"} =>
            /\ lockWriter = t
            /\ \A u \in Threads : lockReaders[u] = 0
            /\ \A u \in Threads \ {t} : pc[u] \notin (WriterPcs \cup ReaderPcs)

\* C16, as stated: no operation blocks forever under fair scheduling, so
\* whenever a thread is inside an operation, some thread inside an
\* operation can take its next step.
C16_AsStated ==
    \A t \in Threads :
        pc[t] # "idle" => \E u \in Threads : ENABLED LiveProgress(u)

\* C17: a callback setter reads the slot into the value it returns, then
\* stores its argument into the slot and returns the value read; a watch-ID
\* setter stores its argument and returns the ID it replaced.  No setter
\* changes a table or any slot or watch ID but its own.  So a set(a) followed
\* by a set(b) returns a, and set(set(x)) leaves the slot as it was before.
C17_Swap ==
    [][\A t \in Threads :
          /\ (Idle(t) /\ pc'[t] = "setNewCallback_store") =>
                ret'[t] = newCallback /\ slotVars' = slotVars
          /\ (Idle(t) /\ pc'[t] = "setDeleteCallback_store") =>
                ret'[t] = deleteCallback /\ slotVars' = slotVars
          /\ (Idle(t) /\ pc'[t] = "setCorruptionCallback_store") =>
                ret'[t] = corruptionCallback /\ slotVars' = slotVars
          /\ (pc[t] = "setNewCallback_store" /\ pc'[t] # pc[t]) =>
                /\ newCallback' = func[t] /\ ret'[t] = ret[t]
                /\ deleteCallback' = deleteCallback
                /\ corruptionCallback' = corruptionCallback
          /\ (pc[t] = "setDeleteCallback_store" /\ pc'[t] # pc[t]) =>
                /\ deleteCallback' = func[t] /\ ret'[t] = ret[t]
                /\ newCallback' = newCallback
                /\ corruptionCallback' = corruptionCallback
          /\ (pc[t] = "setCorruptionCallback_store" /\ pc'[t] # pc[t]) =>
                /\ corruptionCallback' = func[t] /\ ret'[t] = ret[t]
                /\ newCallback' = newCallback
                /\ deleteCallback' = deleteCallback
          /\ (pc'[t] # pc[t] /\ pc'[t] \in {"setNewCallback_store", "setDeleteCallback_store",
                                           "setCorruptionCallback_store", "setCallback_ret"}) =>
                regVars' = regVars /\ watchVars' = watchVars /\ objVars' = objVars
          /\ \A id \in MemIds :
                /\ SetNewCallbackId(t, id) =>
                      /\ newId' = id /\ ret'[t] = newId /\ deleteId' = deleteId
                      /\ regVars' = regVars /\ slotVars' = slotVars
                /\ SetDeleteCallbackId(t, id) =>
                      /\ deleteId' = id /\ ret'[t] = deleteId /\ newId' = newId
                      /\ regVars' = regVars /\ slotVars' = slotVars
          /\ (pc[t] = "setCallbackId_unlock" /\ pc'[t] # pc[t]) =>
                regVars' = regVars /\ slotVars' = slotVars /\ watchVars' = watchVars
      ]_vars

\* C17, witness: after setNewCallback(userCallback),
\* setNewCallback(defaultNewCallback) is about to return userCallback and
\* the slot is as it was at first, with objects registered and the other two
\* slots holding their defaults
C17_Witness ==
    \E t \in Threads :
        /\ pc[t] = "setCallback_ret"
        /\ func[t] = DefaultNewCallback
        /\ newCallback = DefaultNewCallback
        /\ ret[t] = "userCallback"
        /\ deleteCallback = DefaultDeleteCallback
        /\ corruptionCallback = DefaultCorruptionCallback
        /\ DOMAIN activeCitizens # {}

Registered(c) == InActive(c) \/ InPersistent(c)

\* c is registered when the step ends
RegisteredNext(c) == c \in (DOMAIN activeCitizens') \cup (DOMAIN persistentCitizens')

\* the corruption callbacks among the callbacks of a log
CorruptionCalls(log) == SelectSeq(log, LAMBDA e : e[1] = "corruption")

\* C18: a destruction calls the delete callback (on a match) in its first
\* step only, with the object registered and its sentinel not yet written;
\* then validates the sentinel, the object still registered; then erases
\* the object; then, the object erased, runs the structural check, which
\* alone can call the corruption callback after the erase.  The steps come
\* in this order and the callbacks are called in this order.
C18_Order ==
    [][\A t \in Threads :
          /\ DeleteCalls(hookLog'[t]) # DeleteCalls(hookLog[t]) /\ hookLog'[t] # <<>> =>
                /\ Idle(t) /\ pc'[t] = "dtor_unlock1"
                /\ Registered(self'[t]) /\ RegisteredNext(self'[t])
                /\ sentinel'[self'[t]] = sentinel[self'[t]]
                /\ CorruptionCalls(hookLog'[t]) = <<>>
          /\ pc[t] = "dtor_unlock1" =>
                /\ pc'[t] \in {"dtor_unlock1", "dtor_erase", "dtor_thrown"}
                /\ Registered(self[t]) /\ RegisteredNext(self[t])
                /\ pc'[t] # pc[t] =>
                      /\ hookLog'[t] = hookLog[t] \o
                            (IF sentinel[self[t]] # Magic
                             THEN << <<"corruption", self[t], 0>> >> ELSE <<>>)
                      /\ CorruptionCalls(hookLog[t]) = <<>>
          /\ pc[t] = "dtor_erase" =>
                /\ pc'[t] \in {"dtor_erase", "dtor_unlock2"}
                /\ Registered(self[t])
                /\ pc'[t] # pc[t] => (~RegisteredNext(self[t]) /\ hookLog'[t] = hookLog[t])
          /\ pc[t] = "dtor_unlock2" =>
                /\ pc'[t] \in {"dtor_unlock2", "dtor_return", "dtor_thrown"}
                /\ ~Registered(self[t])
                /\ pc'[t] # pc[t] =>
                      hookLog'[t] = hookLog[t] \o
                          (IF corrupt[t] THEN << <<"corruption", self[t], 0>> >> ELSE <<>>)
          /\ pc[t] = "dtor_return" =>
                /\ pc'[t] \in {"dtor_return", "idle"}
                /\ \A i, j \in 1..Len(hookLog[t]) :
                      (i < j /\ hookLog[t][j][1] = "delete") => hookLog[t][i][1] = "delete"
          /\ \A c \in Addrs :
                (Registered(c) /\ ~RegisteredNext(c)) =>
                    \E u \in Threads : pc[u] = "dtor_erase" /\ self[u] = c
                                       /\ pc'[u] = "dtor_unlock2"
      ]_vars

\* C18, witness: a destruction called the delete callback, then found the
\* sentinel overwritten and called the corruption callback, then erased the
\* object
C18_Witness ==
    \E t \in Threads :
        /\ pc[t] = "dtor_unlock2"
        /\ Len(hookLog[t]) = 2
        /\ hookLog[t][1][1] = "delete"
        /\ hookLog[t][2] = <<"corruption", self[t], 0>>
        /\ ~Registered(self[t])

\* C19, as stated: the dead pattern is written as the first step of the
\* destruction, so once the first guarded block of the destructor (with the
\* delete callback) has run, and while the sentinel is validated, the
\* sentinel holds the dead pattern.
C19_AsStated ==
    \A t \in Threads :
        pc[t] = "dtor_unlock1" => sentinel[self[t]] = Dead

\* C19, amended: the sentinel holds the magic pattern from construction on
\* until a stray write or the destructor overwrites it; the destructor
\* writes the dead pattern after its delete callback and after it has
\* validated the sentinel, in the step of the validation, and before the
\* object is erased from the registry.
C19_DeadWrite ==
    [][/\ \A t \in Threads :
             /\ (Idle(t) /\ pc'[t] = "addCitizen_unlock") => sentinel'[self'[t]] = Magic
             /\ (pc[t] = "dtor_unlock1" /\ pc'[t] = "dtor_erase") =>
                   /\ sentinel'[self[t]] = Dead
                   /\ Registered(self[t]) /\ RegisteredNext(self[t])
                   /\ DeleteCalls(hookLog'[t]) = DeleteCalls(hookLog[t])
                   /\ hookLog'[t] = hookLog[t] \o
                         (IF sentinel[self[t]] # Magic
                          THEN << <<"corruption", self[t], 0>> >> ELSE <<>>)
             /\ (pc[t] = "dtor_erase" /\ pc'[t] # pc[t]) => sentinel[self[t]] # Magic
       /\ \A c \in Addrs :
             /\ (sentinel[c] = Magic /\ sentinel'[c] # Magic) =>
                   \/ sentinel'[c] = Stray /\ pc' = pc
                   \/ \E t \in Threads : /\ self[t] = c
                                         /\ pc[t] = "dtor_unlock1"
                                         /\ pc'[t] = "dtor_erase"
             /\ (sentinel[c] # Dead /\ sentinel'[c] = Dead) =>
                   \E t \in Threads : /\ self[t] = c
                                      /\ pc[t] = "dtor_unlock1"
                                      /\ pc'[t] = "dtor_erase"
      ]_vars

\* C19, witness: a destructor called the delete callback while the sentinel
\* held the magic pattern, has now written the dead pattern and has not yet
\* erased the object
C19_Witness ==
    \E t \in Threads :
        /\ pc[t] = "dtor_erase"
        /\ Len(hookLog[t]) = 1 /\ hookLog[t][1][1] = "delete"
        /\ sentinel[self[t]] = Dead
        /\ Registered(self[t])

\* the number of entries of the active set under the key c
ActiveCount(c) == IF c \in DOMAIN activeCitizens THEN 1 ELSE 0

\* C20, as stated: the structural check finds corruption if the number of
\* entries erased from the active set was not exactly 1, or was 0 while the
\* object was absent from the persistent set too, and not otherwise.
C20_AsStated ==
    [][\A t \in Threads :
          (pc[t] = "dtor_erase" /\ pc'[t] = "dtor_unlock2") =>
              corrupt'[t] = (\/ ActiveCount(self[t]) # 1
                             \/ (ActiveCount(self[t]) = 0 /\ ~InPersistent(self[t])))
      ]_vars

\* C20, amended: the structural check finds corruption if the number of
\* entries erased from the active set was greater than 1, or was 0 while the
\* object was absent from the persistent set too, and not otherwise: not for
\* an object in the active set only, not for an object in the persistent
\* set only, and it does for an object in neither set.  The corruption
\* callback is then called once, after the erase, and only then.
C20_Structural ==
    [][\A t \in Threads :
          /\ (pc[t] = "dtor_erase" /\ pc'[t] = "dtor_unlock2") =>
                LET c == self[t] IN
                    /\ corrupt'[t] = (\/ ActiveCount(c) > 1
                                      \/ (ActiveCount(c) = 0 /\ ~InPersistent(c)))
                    /\ (InActive(c) /\ ~InPersistent(c)) => ~corrupt'[t]
                    /\ (~InActive(c) /\ InPersistent(c)) => ~corrupt'[t]
                    /\ (~InActive(c) /\ ~InPersistent(c)) => corrupt'[t]
                    /\ c \notin DOMAIN activeCitizens'
                    /\ ActiveCount(c) = 0 => c \notin DOMAIN persistentCitizens'
          /\ (pc[t] = "dtor_unlock2" /\ pc'[t] # pc[t]) =>
                /\ ~Registered(self[t])
                /\ hookLog'[t] = hookLog[t] \o
                      (IF corrupt[t] THEN << <<"corruption", self[t], 0>> >> ELSE <<>>)
      ]_vars

\* C20, witness: the destructor of an object that markPersistent moved to
\* the persistent set has erased it (nothing from the active set, one entry
\* from the persistent set) and has run the structural check without
\* calling the corruption callback
C20_Witness ==
    \E t \in Threads :
        /\ pc[t] = "dtor_return"
        /\ marked[self[t]]
        /\ ~corrupt[t]
        /\ hookLog[t] = <<>>
        /\ ~Registered(self[t])

\* the objects a census or a count that holds its ReadGuard can return, for
\* any argument and any view of the _CitizenId members it reads
Counted ==
    UNION { SeqElems(census(view, activeCitizens, m)) :
                view \in FieldViews(activeCitizens), m \in MemIds }

\* C21: migration is one-way.  No step of any thread (construction,
\* destruction, markPersistent on this or on another object, scope entry or
\* exit, a census or a count) takes an identity that is in the persistent
\* set to the active set: after the step the identity is not in the active
\* set, and no census or count that is running returns it.  It leaves the
\* persistent set only through the erase of its own destructor.
C21_OneWay ==
    [][\A c \in Addrs :
          InPersistent(c) =>
              /\ c \notin DOMAIN activeCitizens'
              /\ c \notin Counted'
              /\ c \notin DOMAIN persistentCitizens' =>
                    \E t \in Threads :
                        /\ self[t] = c
                        /\ pc[t] = "dtor_erase" /\ pc'[t] = "dtor_unlock2"
      ]_vars

\* C21, witness: markPersistent was called again on an object that was
\* already in the persistent set (operator[] on the active set made the
\* value-initialised pair that is now its entry), the object is still in
\* the persistent set only, and another thread runs a census
C21_Witness ==
    \E c \in Addrs : \E t \in Threads :
        /\ objState[c] = "live"
        /\ InPersistent(c) /\ ~InActive(c)
        /\ persistentCitizens[c] = <<0, NoThread>>
        /\ pc[t] = "census_unlock"
        /\ activeCitizens # EmptyTable

\* where a thread reads the active set: under its ReadGuard in countCitizens
\* and census(memId), or in a read operation called from the new callback
ActiveReaderPcs == {"countCitizens_unlock", "census_unlock", "newCallback_read"}

\* C22, as stated: whenever a thread reading the active set finds an
\* identity in it, the _CitizenId it reads in that object equals the
\* tracking ID of the registry entry, also while the constructor of the
\* object is still running on another thread and inside the new callback.
C22_AsStated ==
    \A t \in Threads :
        pc[t] \in ActiveReaderPcs =>
            \A view \in FieldViews(activeCitizens) :
                \A c \in DOMAIN activeCitizens : view[c] = activeCitizens[c][1]

\* what does hold: the _CitizenId read equals the registered tracking ID for
\* every active object whose constructor has returned
C22_WhenConstructed ==
    \A t \in Threads :
        pc[t] \in ActiveReaderPcs =>
            \A view \in FieldViews(activeCitizens) :
                \A c \in DOMAIN activeCitizens :
                    objState[c] # "constructing" => view[c] = activeCitizens[c][1]

\* C23, as stated: when no sentinel is ever overwritten from outside, a
\* hasBeenCorrupted() that runs beside the destructors of other threads
\* ends by returning false, having called no callback: it does not return
\* true, and no exception of a corruption callback leaves it.
C23_AsStated ==
    \A t \in Threads :
        /\ pc[t] # "hasBeenCorrupted_throw"
        /\ pc[t] = "hasBeenCorrupted_unlock" => (~ret[t] /\ hookLog[t] = <<>>)

\* what does hold with no stray write: a scan calls the corruption callback
\* only for a registered object whose destructor, on another thread, has
\* stored the dead pattern and has not yet erased the object
C23_OnlyDestructing ==
    \A t \in Threads :
        (pc[t] \in {"hasBeenCorrupted_unlock", "hasBeenCorrupted_throw"}
            /\ hookLog[t] # <<>>) =>
                \E c \in Addrs : \E u \in Threads \ {t} :
                    /\ hookLog[t] = << <<"corruption", c, 0>> >>
                    /\ Registered(c)
                    /\ sentinel[c] = Dead
                    /\ self[u] = c /\ pc[u] = "dtor_erase"

\* C24: every tracking ID assigned is >= 1 (the counter of a thread, the
\* cid a constructor got, the _CitizenId it stored, the ID registered in the
\* active set), so while the new watch ID is 0 no construction calls the new
\* callback, and while the delete watch ID is 0 no destruction calls the
\* delete callback, on any thread: not in the step that compares the ID to
\* the watch ID, which leaves the watch ID 0, and not in a later step of
\* the constructor or the destructor.
C24_ZeroWatch ==
    [][/\ \A t \in Threads :
            /\ perThreadId'[t] >= 1
            /\ cid'[t] # NoValue => cid'[t] >= 1
            /\ (Idle(t) /\ pc'[t] = "addCitizen_unlock" /\ newId = 0) =>
                  /\ hookLog'[t] = <<>>
                  /\ newId' = 0
            /\ (Idle(t) /\ pc'[t] = "dtor_unlock1" /\ deleteId = 0) =>
                  /\ citizenId[self'[t]] >= 1
                  /\ hookLog'[t] = <<>>
                  /\ deleteId' = 0
            /\ (pc[t] \in {"addCitizen_unlock", "Citizen_store"} /\ newId = 0) =>
                  Len(NewCalls(hookLog'[t])) <= Len(NewCalls(hookLog[t]))
            /\ (pc[t] \in {"dtor_unlock1", "dtor_erase", "dtor_unlock2"}
                    /\ deleteId = 0) =>
                  Len(DeleteCalls(hookLog'[t])) <= Len(DeleteCalls(hookLog[t]))
       /\ \A c \in Addrs :
            /\ citizenId'[c] # Uninit => citizenId'[c] >= 1
            /\ c \in DOMAIN activeCitizens' => activeCitizens'[c][1] >= 1
      ]_vars

\* C24, witness: both watch IDs are 0; one thread is in the first guarded
\* block of the destructor of an object with ID 1 and another has left
\* _addCitizen with the ID 2, and neither has called a callback
C24_Witness ==
    \E t, u \in Threads :
        /\ newId = 0 /\ deleteId = 0
        /\ pc[t] = "dtor_unlock1"
        /\ citizenId[self[t]] = 1
        /\ hookLog[t] = <<>>
        /\ pc[u] = "Citizen_store"
        /\ cid[u] = 2
        /\ hookLog[u] = <<>>

====
